---------------------------- MODULE Spec2Model ----------------------------
(***************************************************************************)
(* Model of the prodidows multiplayer backend.  The repository holds       *)
(* several drafts of the same server:                                      *)
(*                                                                         *)
(*   players-table server  src/server.js (two drafts), src/unnamed/part_000*)
(*                         and part_001: one table `players` keyed by      *)
(*                         socket.id, socket.io rooms world_<id>.          *)
(*   WorldSystem           src/WorldSystem.js: connectedPlayers keyed by   *)
(*                         userId and the counter world.playerCount.       *)
(*   namespace server      src/unnamed/part_002 lines 149-219: world.players*)
(*                         keyed by userId and world.playerCount.          *)
(*   raw-WebSocket World   src/unnamed/part_002 lines 255-422:             *)
(*                         connectedClients keyed by ws, currentPlayers.   *)
(*   World                 src/World.js: connectedSockets keyed by ws.id,  *)
(*                         currentPlayers.                                 *)
(*                                                                         *)
(* The variable `draft` says which draft is running; it is chosen in Init  *)
(* and never changes.  Every handler of the source is one action.          *)
(***************************************************************************)
EXTENDS Integers, Sequences, FiniteSets, TLC

VARIABLES
    draft,      \* which draft of the server is running
    conn,       \* per socket: "new", "open", "rejected" or "closed"
    emits,      \* what the last handler run emitted, in program order
    op,         \* the last handler run: [name, outcome], the branch it took
    players,    \* server.js: const players = {} (socket.id -> record)
    rooms,      \* socket.io: the rooms each socket has joined
    leaveLog,   \* history: what the runs of s's disconnect handler did so far
                \* (`had` is recorded by the players-table server only)
    connectedPlayers, \* WorldSystem: this.connectedPlayers (userId -> entry)
    playerCount,      \* WorldSystem and namespace server: world.playerCount
    worldPlayers,     \* namespace server: world.players (userId -> entry)
    connectedClients, \* raw-WebSocket World: this.connectedClients (ws -> data)
    connectedSockets, \* World.js: this.connectedSockets (ws.id -> entry)
    currentPlayers,   \* raw-WebSocket World and World.js: this.currentPlayers
    userIdOf,         \* the userId each connection handler closed over
    heard             \* history, for the connections it is kept for: per
                      \* identity, the last of playerJoined / playerLeft
                      \* the connection was sent

serverVars == <<players, rooms, leaveLog>>
\* the state of the path-routed drafts
pathVars == <<connectedPlayers, playerCount, worldPlayers, connectedClients,
              connectedSockets, currentPlayers, userIdOf>>
roomVars == <<pathVars, heard>>
vars == <<draft, conn, emits, op, players, rooms, leaveLog, connectedPlayers,
          playerCount, worldPlayers, connectedClients, connectedSockets,
          currentPlayers, userIdOf, heard>>

---------------------------------------------------------------------------
(* Bounds of the model *)

\* number of sockets (socket.id values) that ever connect
NumSockets == 2
\* capacity of each world of the players-table server; the source
\* configures maxPopulation: 100 for every world
MaxPopulation == 1
\* how often the disconnect handler of one socket runs at most
MaxDisconnectRuns == 2
\* number of connections that ever reach one world of a path-routed draft
NumConnections == 3
\* capacity of a world of WorldSystem and of the raw-WebSocket World; the
\* source sets maxPlayers = 100
MaxPlayers == 2

Sockets == 1..NumSockets
Connections == 1..NumConnections

---------------------------------------------------------------------------
(* Values *)

\* a table slot with no record: players[socket.id] === undefined
NoRecord == [none |-> TRUE]

\* a message that carries no data object: data === undefined
NoData == [undefined |-> TRUE]

\* the handlers test userID for truthiness and copy it, nothing else: one
\* value stands for every userID a client may present
UserIDs == {"u1"}

ServerDrafts == {"server1", "server2", "part000", "part001"}

\* const worlds = [...]: the configured worlds, in order (two of the
\* source's four or five, all alike)
worlds ==
    << [id |-> 1, maxPopulation |-> MaxPopulation],
       [id |-> 2, maxPopulation |-> MaxPopulation] >>

WorldIds == {worlds[i].id : i \in 1..Len(worlds)}

\* worldId values a client sends: the configured ids and 0, which is not
\* configured (and falsy in JavaScript)
WorldIdInputs == WorldIds \cup {0}

\* `world_${worldId}`
RoomName(worldId) == "world_" \o ToString(worldId)

\* the data objects a client sends with joinWorld.  x, y and appearance are
\* stored and replicated verbatim and read by no handler: the model leaves
\* them out of the data and of the record
JoinInputs ==
    {NoData}
    \cup {[worldId |-> w] : w \in WorldIdInputs}
    \cup {[worldId |-> w, userID |-> u] : w \in WorldIdInputs, u \in UserIDs}

\* the data objects a client sends with updatePlayer: a position, or a
\* payload that names the record's world field
UpdateInputs ==
    {[x |-> 1]} \cup {[world |-> w] : w \in WorldIds}

Has(data, f) == f \in DOMAIN data

\* Object.assign(p, data), on the fields the model keeps
ObjectAssign(p, data) ==
    [socketId |-> IF Has(data, "socketId") THEN data.socketId ELSE p.socketId,
     userID   |-> IF Has(data, "userID") THEN data.userID ELSE p.userID,
     world    |-> IF Has(data, "world") THEN data.world ELSE p.world]

---------------------------------------------------------------------------
(* socket.io delivery *)

Emit(ev, to, payload) == [ev |-> ev, to |-> to, payload |-> payload]

\* an emit that reaches only the connected sockets that hold a record
IoEmit_JoinedOnly(ev, payload, cn) ==
    Emit(ev, {t \in Sockets : cn[t] = "open" /\ players[t] # NoRecord}, payload)

\* io.emit(...): every connected socket
IoEmit(ev, payload, cn) == Emit(ev, {t \in Sockets : cn[t] = "open"}, payload)

\* socket.emit(...): the socket itself
SocketEmit(s, ev, payload) == Emit(ev, {s}, payload)

\* socket.to(room).emit(...): the sockets in the room, except the sender
SocketToEmit(s, room, ev, payload, rm) ==
    Emit(ev, {t \in Sockets : room \in rm[t]} \ {s}, payload)

\* the emissions of `ev` in a handler's output that reach socket t
Delivered(es, ev, t) == {i \in 1..Len(es) : es[i].ev = ev /\ t \in es[i].to}

\* the emit calls of `ev` in a handler's output
Calls(es, ev) == {i \in 1..Len(es) : es[i].ev = ev}

---------------------------------------------------------------------------
(* players-table server *)

\* a count that takes every record, whatever its world
Population_AllRecords(pl, id) ==
    Cardinality({s \in Sockets : pl[s] # NoRecord})

\* Object.values(players).filter(p => p.world === w.id).length
Population(pl, id) ==
    Cardinality({s \in Sockets : pl[s] # NoRecord /\ pl[s].world = id})

\* count / w.maxPopulation, kept as the fraction it is
Ratio(count, max) == [num |-> count, den |-> max]

getWorldsWithPopulation(pl) ==
    [i \in 1..Len(worlds) |->
        [id            |-> worlds[i].id,
         maxPopulation |-> worlds[i].maxPopulation,
         population    |-> Population(pl, worlds[i].id),
         full          |-> Ratio(Population(pl, worlds[i].id), worlds[i].maxPopulation)]]

\* no playerJoined or playerLeft event heard yet of any socket
NoSocketHeard == [a \in Sockets |-> "none"]

\* what socket t has heard of each socket after the emissions es: the
\* playerJoined and playerLeft payloads carry the socketId of their subject
SocketHeardAfter(h, t, es) ==
    [a \in Sockets |->
        IF \E i \in Delivered(es, "playerLeft", t) : es[i].payload.socketId = a
        THEN "left"
        ELSE IF \E i \in Delivered(es, "playerJoined", t) : es[i].payload.socketId = a
        THEN "joined"
        ELSE h[a]]

\* the history after the emissions es; a socket that is not open keeps none
SocketsHear(hd, es, cn) ==
    [t \in DOMAIN hd |->
        IF cn[t] = "open" THEN SocketHeardAfter(hd[t], t, es) ELSE NoSocketHeard]

\* io.on('connection', socket => ...): the handlers are registered
Connect(s) ==
    /\ draft \in ServerDrafts
    /\ UNCHANGED draft
    /\ conn[s] = "new"
    /\ conn' = [conn EXCEPT ![s] = "open"]
    /\ emits' = <<>>
    /\ op' = [name |-> "connection", outcome |-> "registered"]
    /\ UNCHANGED <<serverVars, roomVars>>

\* socket.on('getWorldList', () => ...)
GetWorldList(s) ==
    /\ draft \in ServerDrafts
    /\ conn[s] = "open"
    /\ emits' = <<SocketEmit(s, "worldListResponse", getWorldsWithPopulation(players))>>
    /\ op' = [name |-> "getWorldList", outcome |-> "listed"]
    /\ UNCHANGED <<draft, conn, serverVars, roomVars>>

\* a joinWorld handler that lets a missing userID through
MissingUserID_Never(data) == FALSE

\* if (!userID)
MissingUserID(data) == ~Has(data, "userID")

\* the record joinWorld stores; a field the data lacks is undefined
JoinRecord(s, data) ==
    [socketId |-> s,
     userID   |-> IF Has(data, "userID") THEN data.userID ELSE "undefined",
     world    |-> data.worldId]

\* Object.values(players).filter(p => p.world === worldId && p.socketId !== socket.id)
OthersInWorld(pl, s, worldId) ==
    {pl[t] : t \in {t \in Sockets :
                      /\ pl[t] # NoRecord
                      /\ pl[t].world = worldId
                      /\ pl[t].socketId # s}}

\* what a successful joinWorld emits, in each draft's order
JoinEmits(s, data, pl, rm, cn) ==
    LET list   == SocketEmit(s, "playerList", OthersInWorld(pl, s, data.worldId))
        joined == SocketToEmit(s, RoomName(data.worldId), "playerJoined", pl[s], rm)
        update == IoEmit("worldListUpdate", getWorldsWithPopulation(pl), cn)
    IN  CASE draft = "server1" -> <<list, joined, update>>
          [] draft = "server2" -> <<update, list, joined>>
          [] draft = "part000" -> <<list, joined, update>>
          [] OTHER             -> <<joined, list, update>>

\* socket.on('joinWorld', data => ...)
JoinWorld(s, data) ==
    /\ draft \in ServerDrafts
    /\ UNCHANGED draft
    /\ conn[s] = "open"
    /\ UNCHANGED <<conn, leaveLog, pathVars>>
    /\ IF data = NoData
       THEN \* destructuring undefined throws; the catch logs it
            /\ emits' = <<>>
            /\ op' = [name |-> "joinWorld", outcome |-> "threw"]
            /\ UNCHANGED <<players, rooms>>
       ELSE IF MissingUserID(data)
       THEN /\ emits' = IF draft = "server1"
                        THEN <<SocketEmit(s, "error_message", "Login required for multiplayer")>>
                        ELSE <<>>
            /\ op' = [name |-> "joinWorld", outcome |-> "noUserID"]
            /\ UNCHANGED <<players, rooms>>
       ELSE /\ op' = [name |-> "joinWorld", outcome |-> "joined"]
            /\ rooms' = [rooms EXCEPT ![s] = @ \cup {RoomName(data.worldId)}]
            /\ players' = [players EXCEPT ![s] = JoinRecord(s, data)]
            /\ emits' = JoinEmits(s, data, players', rooms', conn)
    /\ heard' = SocketsHear(heard, emits', conn)

\* the guard of updatePlayer: if (p) in server.js, if (p && p.world) in the parts
UpdateGuard(p) ==
    /\ p # NoRecord
    /\ draft \in {"part000", "part001"} => p.world # 0

\* socket.on('updatePlayer', data => ...)
UpdatePlayer(s, data) ==
    /\ draft \in ServerDrafts
    /\ UNCHANGED draft
    /\ conn[s] = "open"
    /\ UNCHANGED <<conn, rooms, leaveLog, roomVars>>
    /\ IF UpdateGuard(players[s])
       THEN LET p == ObjectAssign(players[s], data)
            IN  /\ players' = [players EXCEPT ![s] = p]
                /\ emits' = <<SocketToEmit(s, RoomName(p.world), "playerUpdate", p, rooms)>>
                /\ op' = [name |-> "updatePlayer", outcome |-> "updated"]
       ELSE /\ emits' = <<>>
            /\ op' = [name |-> "updatePlayer", outcome |-> "ignored"]
            /\ UNCHANGED players

\* the disconnect handler without its delete players[socket.id]
AfterDisconnect_KeepsRecord(pl, s) == pl

\* the players table after the disconnect handler of s has run
AfterDisconnect(pl, s) ==
    IF pl[s] # NoRecord THEN [pl EXCEPT ![s] = NoRecord] ELSE pl

\* what the disconnect handler of s emits
DisconnectEmits(pl, s, rm, cn) ==
    IF pl[s] # NoRecord
    THEN << SocketToEmit(s, RoomName(pl[s].world), "playerLeft",
                         [userID |-> pl[s].userID, socketId |-> s], rm),
            IoEmit("worldListUpdate", getWorldsWithPopulation(AfterDisconnect(pl, s)), cn) >>
    ELSE <<>>

\* the log of s's disconnect handler after one more run that emitted es:
\* the runs, and the playerLeft and worldListUpdate emit calls of all runs
LogRun(log, es) ==
    [log EXCEPT !.runs   = @ + 1,
                !.left   = @ + Cardinality(Calls(es, "playerLeft")),
                !.pushes = @ + Cardinality(Calls(es, "worldListUpdate"))]

\* the branch the disconnect handler of s takes
LeaveOutcome(pl, s) == IF pl[s] # NoRecord THEN "left" ELSE "noRecord"

\* socket.on('disconnect', ...): socket.io has taken the socket out of its
\* rooms and of the namespace before the handler runs
Disconnect(s) ==
    /\ draft \in ServerDrafts
    /\ UNCHANGED draft
    /\ conn[s] = "open"
    /\ conn' = [conn EXCEPT ![s] = "closed"]
    /\ rooms' = [rooms EXCEPT ![s] = {}]
    /\ players' = AfterDisconnect(players, s)
    /\ emits' = DisconnectEmits(players, s, rooms', conn')
    /\ op' = [name |-> "disconnect", outcome |-> LeaveOutcome(players, s)]
    /\ leaveLog' = [leaveLog EXCEPT
                      ![s] = LogRun([@ EXCEPT !.had = players[s] # NoRecord], emits')]
    /\ heard' = SocketsHear(heard, emits', conn')
    /\ UNCHANGED pathVars

\* the disconnect handler of a closed socket fires once more
DisconnectAgain(s) ==
    /\ draft \in ServerDrafts
    /\ UNCHANGED draft
    /\ conn[s] = "closed"
    /\ leaveLog[s].runs < MaxDisconnectRuns
    /\ players' = AfterDisconnect(players, s)
    /\ emits' = DisconnectEmits(players, s, rooms, conn)
    /\ op' = [name |-> "disconnectAgain", outcome |-> LeaveOutcome(players, s)]
    /\ leaveLog' = [leaveLog EXCEPT ![s] = LogRun(@, emits')]
    /\ heard' = SocketsHear(heard, emits', conn)
    /\ UNCHANGED <<conn, rooms, pathVars>>

\* an updatePlayer that was in flight when its socket disconnected: the
\* handler runs for the closed socket
LateUpdatePlayer(s, data) ==
    /\ draft \in ServerDrafts
    /\ conn[s] = "closed"
    /\ UNCHANGED <<draft, conn, rooms, leaveLog, roomVars>>
    /\ IF UpdateGuard(players[s])
       THEN LET p == ObjectAssign(players[s], data)
            IN  /\ players' = [players EXCEPT ![s] = p]
                /\ emits' = <<SocketToEmit(s, RoomName(p.world), "playerUpdate", p, rooms)>>
                /\ op' = [name |-> "updatePlayer", outcome |-> "updated"]
       ELSE /\ emits' = <<>>
            /\ op' = [name |-> "updatePlayer", outcome |-> "ignored"]
            /\ UNCHANGED players

---------------------------------------------------------------------------
(* Values of the path-routed drafts *)

\* the userId query parameters clients present
UserIds == {"u1", "u2"}

\* a map slot with no entry: map.get(key) === undefined
NoEntry == [none |-> TRUE]

\* the closure of a connection that registered no handler holds no userId
NoUser == "-"

\* wizardData: null
Null == "null"

\* the query of a handshake: each parameter present or missing.  worldId
\* names this world or another one.  A draft is given the parameters it
\* tests or stores; the others are present
Handshakes(tokens, zones) ==
    {[userId |-> u, worldId |-> w, userToken |-> k, zone |-> z] :
        u \in UserIds \cup {"missing"}, w \in {"this", "other", "missing"},
        k \in tokens, z \in zones}

\* !param
Missing(q, f) == q[f] = "missing"

\* a validation that tests userId only
InvalidHandshake_UserIdOnly(q) == Missing(q, "userId")

\* if (!userId || !worldId)
InvalidHandshake(q) == Missing(q, "userId") \/ Missing(q, "worldId")

\* ws.id: the ws library gives a socket no id, and no draft sets one
WsIds == {"undefined"}

\* the handshakes each draft is given
WS_Handshakes == Handshakes({"tok"}, {"z1", "missing"})
NS_Handshakes == Handshakes({"tok", "missing"}, {"missing"})
RW_Handshakes == Handshakes({"tok"}, {"z1", "missing"})

\* socket.handshake.query.zone || "unknown"
ZoneOf(q) == IF Missing(q, "zone") THEN "unknown" ELSE q.zone

\* the messages a client sends on an accepted connection
Messages ==
    { [type |-> "unparseable"],
      [type |-> "joinGameWorld", wizardData |-> "wd", zone |-> "z1"],
      [type |-> "chatMessage", payload |-> [message |-> "hi"]],
      [type |-> "chatMessage"],
      [type |-> "switchZone", zoneName |-> "z1"],
      [type |-> "ping"] }

NothingHeard == [u \in UserIds |-> "none"]

\* what connection c has heard of each identity after the emissions es
HeardAfter(h, c, es) ==
    [u \in UserIds |->
        IF \E i \in Delivered(es, "playerJoined", c) : es[i].payload.userID = u
        THEN "joined"
        ELSE IF \E i \in Delivered(es, "playerLeft", c) : es[i].payload.userID = u
        THEN "left"
        ELSE h[u]]

\* the history after the emissions es; a connection that is not open keeps
\* none
Hear(hd, es, cn) ==
    [c \in DOMAIN hd |->
        IF cn[c] = "open" THEN HeardAfter(hd[c], c, es) ELSE NothingHeard]

---------------------------------------------------------------------------
(* WorldSystem, src/WorldSystem.js *)

\* the capacity test with > in place of >=
WorldIsFull_OffByOne(count) == count > MaxPlayers

\* this.world.playerCount >= this.world.maxPlayers
WorldIsFull(count) == count >= MaxPlayers

\* a broadcast that does not leave the sender out
Broadcast_SenderToo(cp, sender, ev, payload, cn) ==
    Emit(ev,
         {c \in Connections :
            /\ \E u \in UserIds : cp[u] # NoEntry /\ cp[u].socket = c
            /\ cn[c] = "open"},
         payload)

\* WorldSystem.broadcast(senderSocket, eventName, payload): one emit to the
\* socket of every entry whose socket is not the sender's
Broadcast(cp, sender, ev, payload, cn) ==
    Emit(ev,
         {c \in Connections :
            /\ \E u \in UserIds : cp[u] # NoEntry /\ cp[u].socket = c
            /\ c # sender
            /\ cn[c] = "open"},
         payload)

\* the entry handleConnection stores
NewEntry(c, q) ==
    [socket |-> c, userId |-> q.userId, wizardData |-> Null, currentZone |-> ZoneOf(q)]

\* Array.from(this.connectedPlayers.values()).map(p => ({userID, zone, wizardData}))
PlayerList(cp) ==
    {[userID |-> cp[u].userId, zone |-> cp[u].currentZone, wizardData |-> cp[u].wizardData] :
        u \in {u \in UserIds : cp[u] # NoEntry}}

\* WorldSystem.handleConnection(socket)
WS_HandleConnection(c, q) ==
    /\ draft = "WorldSystem"
    /\ conn[c] = "new"
    /\ UNCHANGED <<draft, serverVars, worldPlayers, connectedClients,
                   connectedSockets, currentPlayers>>
    /\ IF InvalidHandshake(q)
       THEN /\ emits' = <<SocketEmit(c, "connect_error", "Missing userId or worldId.")>>
            /\ conn' = [conn EXCEPT ![c] = "rejected"]
            /\ op' = [name |-> "connection", outcome |-> "invalid"]
            /\ UNCHANGED <<connectedPlayers, playerCount, userIdOf, heard>>
       ELSE IF WorldIsFull(playerCount)
       THEN /\ emits' = <<SocketEmit(c, "worldFull", "World is full.")>>
            /\ conn' = [conn EXCEPT ![c] = "rejected"]
            /\ op' = [name |-> "connection", outcome |-> "full"]
            /\ UNCHANGED <<connectedPlayers, playerCount, userIdOf, heard>>
       ELSE /\ op' = [name |-> "connection", outcome |-> "accepted"]
            /\ connectedPlayers' = [connectedPlayers EXCEPT ![q.userId] = NewEntry(c, q)]
            /\ playerCount' = playerCount + 1
            /\ conn' = [conn EXCEPT ![c] = "open"]
            /\ userIdOf' = [userIdOf EXCEPT ![c] = q.userId]
            /\ emits' = <<>>
            /\ UNCHANGED heard

\* socket.on("message", ...), data.type === "joinGameWorld"
WS_JoinGameWorld(c, data) ==
    LET userId == userIdOf[c]
        playerEntry == connectedPlayers[userId]
        entry2 == [playerEntry EXCEPT !.wizardData = data.wizardData,
                                      !.currentZone = data.zone]
        cp2 == [connectedPlayers EXCEPT ![userId] = entry2]
    IN  IF playerEntry # NoEntry
        THEN /\ connectedPlayers' = cp2
             /\ op' = [name |-> "joinGameWorld", outcome |-> "done"]
             /\ emits' = << SocketEmit(c, "worldJoinedConfirmed", [zoneId |-> entry2.currentZone]),
                            Broadcast(cp2, c, "playerJoined",
                                      [userID |-> userId, username |-> "Player",
                                       wizardData |-> data.wizardData,
                                       zone |-> entry2.currentZone], conn),
                            SocketEmit(c, "playerList", PlayerList(cp2)) >>
        ELSE /\ emits' = <<>>
             /\ op' = [name |-> "joinGameWorld", outcome |-> "noEntry"]
             /\ UNCHANGED connectedPlayers

\* a chatMessage branch that broadcasts whether or not the message has a
\* payload
WS_ChatMessage_AnyPayload(c, data) ==
    /\ op' = [name |-> "chatMessage", outcome |-> "done"]
    /\ emits' = <<Broadcast(connectedPlayers, c, "chatMessage",
                             [userID |-> userIdOf[c], message |-> "undefined"], conn)>>
    /\ UNCHANGED connectedPlayers

\* socket.on("message", ...), data.type === "chatMessage"; reading
\* data.payload.message of a message without payload throws, and the catch
\* logs it
WS_ChatMessage(c, data) ==
    /\ op' = [name |-> "chatMessage",
              outcome |-> IF Has(data, "payload") THEN "done" ELSE "threw"]
    /\ emits' = IF Has(data, "payload")
                THEN <<Broadcast(connectedPlayers, c, "chatMessage",
                                 [userID |-> userIdOf[c], message |-> data.payload.message],
                                 conn)>>
                ELSE <<>>
    /\ UNCHANGED connectedPlayers

\* socket.on("message", ...), data.type === "switchZone"
WS_SwitchZone(c, data) ==
    LET userId == userIdOf[c]
        playerEntry == connectedPlayers[userId]
        cp2 == [connectedPlayers EXCEPT ![userId] =
                    [playerEntry EXCEPT !.currentZone = data.zoneName]]
    IN  IF playerEntry # NoEntry
        THEN /\ connectedPlayers' = cp2
             /\ emits' = <<Broadcast(cp2, c, "playerMoved",
                                     [userID |-> userId, newZone |-> data.zoneName], conn)>>
             /\ op' = [name |-> "switchZone", outcome |-> "done"]
        ELSE /\ emits' = <<>>
             /\ op' = [name |-> "switchZone", outcome |-> "noEntry"]
             /\ UNCHANGED connectedPlayers

\* a message that does nothing: JSON.parse threw and the catch logged it,
\* or no branch matches data.type
Dropped(outcome) ==
    /\ emits' = <<>>
    /\ op' = [name |-> "message", outcome |-> outcome]

\* socket.on("message", messageData => ...)
WS_Message(c, data) ==
    /\ draft = "WorldSystem"
    /\ conn[c] = "open"
    /\ UNCHANGED <<draft, conn, serverVars, playerCount, worldPlayers,
                   connectedClients, connectedSockets, currentPlayers, userIdOf>>
    /\ CASE data.type = "unparseable"   -> Dropped("threw") /\ UNCHANGED connectedPlayers
         [] data.type = "joinGameWorld" -> WS_JoinGameWorld(c, data)
         [] data.type = "chatMessage"   -> WS_ChatMessage(c, data)
         [] data.type = "switchZone"    -> WS_SwitchZone(c, data)
         [] OTHER -> Dropped("unknownType") /\ UNCHANGED connectedPlayers
    /\ heard' = Hear(heard, emits', conn)

\* a message that was in flight when its connection disconnected: the
\* message handler runs for the closed connection
WS_LateMessage(c, data) ==
    /\ draft = "WorldSystem"
    /\ conn[c] = "closed"
    /\ userIdOf[c] # NoUser
    /\ UNCHANGED <<draft, conn, serverVars, playerCount, worldPlayers,
                   connectedClients, connectedSockets, currentPlayers, userIdOf>>
    /\ CASE data.type = "unparseable"   -> Dropped("threw") /\ UNCHANGED connectedPlayers
         [] data.type = "joinGameWorld" -> WS_JoinGameWorld(c, data)
         [] data.type = "chatMessage"   -> WS_ChatMessage(c, data)
         [] data.type = "switchZone"    -> WS_SwitchZone(c, data)
         [] OTHER -> Dropped("unknownType") /\ UNCHANGED connectedPlayers
    /\ heard' = Hear(heard, emits', conn)

\* socket.on("disconnect", ...)
WS_Disconnect(c) ==
    /\ draft = "WorldSystem"
    /\ conn[c] = "open"
    /\ conn' = [conn EXCEPT ![c] = "closed"]
    /\ connectedPlayers' = [connectedPlayers EXCEPT ![userIdOf[c]] = NoEntry]
    /\ playerCount' = playerCount - 1
    /\ emits' = <<Broadcast(connectedPlayers', c, "playerLeft",
                            [userID |-> userIdOf[c]], conn')>>
    /\ heard' = Hear(heard, emits', conn')
    /\ op' = [name |-> "disconnect", outcome |-> "left"]
    /\ leaveLog' = [leaveLog EXCEPT ![c] = LogRun(@, emits')]
    /\ UNCHANGED <<draft, players, rooms, worldPlayers, connectedClients,
                   connectedSockets, currentPlayers, userIdOf>>

\* a later event (a message, the disconnect) of a connection that was
\* rejected: no handler of the draft is registered for it
RejectedEvent(c) ==
    /\ draft \in {"WorldSystem", "namespace", "rawWorld"}
    /\ conn[c] = "rejected"
    /\ conn' = [conn EXCEPT ![c] = "closed"]
    /\ emits' = <<>>
    /\ op' = [name |-> "rejectedEvent", outcome |-> "noHandler"]
    /\ UNCHANGED <<draft, serverVars, roomVars>>

NextWorldSystem ==
    \/ \E c \in Connections, q \in WS_Handshakes : WS_HandleConnection(c, q)
    \/ \E c \in Connections, data \in Messages : WS_Message(c, data)
    \/ \E c \in Connections : WS_Disconnect(c)
    \/ \E c \in Connections : RejectedEvent(c)

---------------------------------------------------------------------------
(* namespace server, src/unnamed/part_002 lines 149-219 *)

\* socket.broadcast.emit(...): every socket connected to the namespace,
\* except the sender
BroadcastEmit(c, ev, payload, cn) ==
    Emit(ev, {d \in Connections : cn[d] = "open"} \ {c}, payload)

\* the entry the connection handler stores (joinedAt is read by no handler)
NewPlayer(c, q) == [id |-> q.userId, socketId |-> c]

\* Object.values(world.players)
ObjectValues(wp) == {wp[u] : u \in {u \in UserIds : wp[u] # NoEntry}}

\* namespace.on("connection", socket => ...)
NS_Connection(c, q) ==
    /\ draft = "namespace"
    /\ conn[c] = "new"
    /\ UNCHANGED <<draft, serverVars, connectedPlayers, connectedClients,
                   connectedSockets, currentPlayers, heard>>
    /\ IF Missing(q, "userId") \/ Missing(q, "userToken")
       THEN /\ emits' = <<>>
            /\ conn' = [conn EXCEPT ![c] = "rejected"]
            /\ op' = [name |-> "connection", outcome |-> "invalid"]
            /\ UNCHANGED <<worldPlayers, playerCount, userIdOf>>
       ELSE /\ op' = [name |-> "connection", outcome |-> "accepted"]
            /\ playerCount' = playerCount + 1
            /\ worldPlayers' = [worldPlayers EXCEPT ![q.userId] = NewPlayer(c, q)]
            /\ conn' = [conn EXCEPT ![c] = "open"]
            /\ userIdOf' = [userIdOf EXCEPT ![c] = q.userId]
            /\ emits' = << BroadcastEmit(c, "playerJoined", worldPlayers'[q.userId], conn),
                           SocketEmit(c, "playerList", ObjectValues(worldPlayers')) >>

\* socket.on("message", message => ...)
NS_Message(c, message) ==
    /\ draft = "namespace"
    /\ conn[c] = "open"
    /\ emits' = <<BroadcastEmit(c, "message",
                                [userId |-> userIdOf[c], message |-> message], conn)>>
    /\ op' = [name |-> "message", outcome |-> "done"]
    /\ UNCHANGED <<draft, conn, serverVars, roomVars>>

\* socket.on("disconnect", reason => ...)
NS_Disconnect(c) ==
    /\ draft = "namespace"
    /\ conn[c] = "open"
    /\ conn' = [conn EXCEPT ![c] = "closed"]
    /\ UNCHANGED <<draft, serverVars, connectedPlayers, connectedClients,
                   connectedSockets, currentPlayers, userIdOf, heard>>
    /\ IF worldPlayers[userIdOf[c]] # NoEntry
       THEN /\ worldPlayers' = [worldPlayers EXCEPT ![userIdOf[c]] = NoEntry]
            /\ playerCount' = playerCount - 1
            /\ emits' = <<BroadcastEmit(c, "playerLeft", userIdOf[c], conn')>>
            /\ op' = [name |-> "disconnect", outcome |-> "left"]
       ELSE /\ emits' = <<>>
            /\ op' = [name |-> "disconnect", outcome |-> "noEntry"]
            /\ UNCHANGED <<worldPlayers, playerCount>>

\* the lobby client that connects to the main Socket.IO server
Lobby == 0

\* full: 0 of every configured world; no handler assigns it
WorldFull == 0

\* worlds.map(world => ({id, path, name, full: world.full})), for the world
\* the model follows
WorldList == <<[id |-> "this", full |-> WorldFull]>>

\* io.on("connection", socket => ...): the main server sends the world list
NS_MainConnection ==
    /\ draft = "namespace"
    /\ emits' = <<Emit("worldList", {Lobby}, WorldList)>>
    /\ op' = [name |-> "mainConnection", outcome |-> "listed"]
    /\ UNCHANGED <<draft, conn, serverVars, roomVars>>

NextNamespace ==
    \/ NS_MainConnection
    \/ \E c \in Connections, q \in NS_Handshakes : NS_Connection(c, q)
    \/ \E c \in Connections : NS_Message(c, "hi")
    \/ \E c \in Connections : NS_Disconnect(c)
    \/ \E c \in Connections : RejectedEvent(c)

---------------------------------------------------------------------------
(* raw-WebSocket World, src/unnamed/part_002 lines 255-422 *)

\* the messages a client sends on an accepted raw WebSocket
RawMessages ==
    { [type |-> "unparseable"],
      [type |-> "joinMultiplayerServer", wizardData |-> "wd", zone |-> "z1"],
      [type |-> "chatMessage", message |-> "hi"],
      [type |-> "switchZone", zoneName |-> "z1"],
      [type |-> "ping"] }

\* ws.send(JSON.stringify({type, ...}))
WsSend(ws, type, payload) == Emit(type, {ws}, payload)

\* World.broadcast(senderWs, eventType, payload): every client of the wss
\* whose readyState is OPEN, except the sender unless the sender is null
RW_Broadcast(senderWs, ev, payload, cn) ==
    Emit(ev, {client \in Connections : cn[client] = "open" /\ client # senderWs}, payload)

\* the client data the connection handler stores
NewClient(q) == [userId |-> q.userId, currentZone |-> ZoneOf(q), wizardData |-> Null]

\* Array.from(this.connectedClients.values()).map(p => ({userID, zone, wizardData}))
RW_PlayerList(cc) ==
    {[userID |-> cc[c].userId, zone |-> cc[c].currentZone, wizardData |-> cc[c].wizardData] :
        c \in {c \in Connections : cc[c] # NoEntry}}

\* this.wss.on("connection", (ws, req) => ...)
RW_Connection(ws, q) ==
    /\ draft = "rawWorld"
    /\ conn[ws] = "new"
    /\ UNCHANGED <<draft, serverVars, connectedPlayers, playerCount, worldPlayers,
                   connectedSockets, heard>>
    /\ IF InvalidHandshake(q)
       THEN /\ emits' = <<>>
            /\ conn' = [conn EXCEPT ![ws] = "rejected"]
            /\ op' = [name |-> "connection", outcome |-> "invalid"]
            /\ UNCHANGED <<connectedClients, currentPlayers, userIdOf>>
       ELSE IF WorldIsFull(currentPlayers)
       THEN /\ emits' = <<WsSend(ws, "worldFull", "World is full.")>>
            /\ conn' = [conn EXCEPT ![ws] = "rejected"]
            /\ op' = [name |-> "connection", outcome |-> "full"]
            /\ UNCHANGED <<connectedClients, currentPlayers, userIdOf>>
       ELSE /\ op' = [name |-> "connection", outcome |-> "accepted"]
            /\ currentPlayers' = currentPlayers + 1
            /\ connectedClients' = [connectedClients EXCEPT ![ws] = NewClient(q)]
            /\ conn' = [conn EXCEPT ![ws] = "open"]
            /\ userIdOf' = [userIdOf EXCEPT ![ws] = q.userId]
            /\ emits' = <<WsSend(ws, "worldJoinedConfirmed", [zoneId |-> ZoneOf(q)])>>

\* ws.on("message", ...), data.type === "joinMultiplayerServer"
RW_JoinMultiplayerServer(ws, data) ==
    LET clientData == connectedClients[ws]
        data2 == [clientData EXCEPT !.wizardData = data.wizardData,
                                    !.currentZone = data.zone]
        cc2 == [connectedClients EXCEPT ![ws] = data2]
    IN  IF clientData # NoEntry
        THEN /\ connectedClients' = cc2
             /\ op' = [name |-> "joinMultiplayerServer", outcome |-> "done"]
             /\ emits' = << RW_Broadcast(ws, "playerJoined",
                                         [userID |-> userIdOf[ws], username |-> "Player",
                                          wizardData |-> data2.wizardData,
                                          zone |-> data2.currentZone], conn),
                            WsSend(ws, "playerList", RW_PlayerList(cc2)) >>
        ELSE /\ emits' = <<>>
             /\ op' = [name |-> "joinMultiplayerServer", outcome |-> "noEntry"]
             /\ UNCHANGED connectedClients

\* ws.on("message", ...), data.type === "chatMessage"
RW_ChatMessage(ws, data) ==
    /\ emits' = <<RW_Broadcast(ws, "chatMessage",
                               [userID |-> userIdOf[ws], message |-> data.message], conn)>>
    /\ op' = [name |-> "chatMessage", outcome |-> "done"]
    /\ UNCHANGED connectedClients

\* ws.on("message", ...), data.type === "switchZone"
RW_SwitchZone(ws, data) ==
    LET clientData == connectedClients[ws]
        cc2 == [connectedClients EXCEPT ![ws] =
                    [clientData EXCEPT !.currentZone = data.zoneName]]
    IN  IF clientData # NoEntry
        THEN /\ connectedClients' = cc2
             /\ emits' = <<RW_Broadcast(ws, "playerMoved",
                                        [userID |-> userIdOf[ws], newZone |-> data.zoneName],
                                        conn)>>
             /\ op' = [name |-> "switchZone", outcome |-> "done"]
        ELSE /\ emits' = <<>>
             /\ op' = [name |-> "switchZone", outcome |-> "noEntry"]
             /\ UNCHANGED connectedClients

\* ws.on("message", message => ...)
RW_Message(ws, data) ==
    /\ draft = "rawWorld"
    /\ conn[ws] = "open"
    /\ UNCHANGED <<draft, conn, serverVars, connectedPlayers, playerCount,
                   worldPlayers, connectedSockets, currentPlayers, userIdOf, heard>>
    /\ CASE data.type = "unparseable" -> Dropped("threw") /\ UNCHANGED connectedClients
         [] data.type = "joinMultiplayerServer" -> RW_JoinMultiplayerServer(ws, data)
         [] data.type = "chatMessage" -> RW_ChatMessage(ws, data)
         [] data.type = "switchZone"  -> RW_SwitchZone(ws, data)
         [] OTHER -> Dropped("unknownType") /\ UNCHANGED connectedClients

\* ws.on("close", (code, reason) => ...): the closing socket is no longer
\* OPEN when the handler runs
RW_Close(ws) ==
    /\ draft = "rawWorld"
    /\ conn[ws] = "open"
    /\ conn' = [conn EXCEPT ![ws] = "closed"]
    /\ currentPlayers' = currentPlayers - 1
    /\ connectedClients' = [connectedClients EXCEPT ![ws] = NoEntry]
    /\ emits' = <<RW_Broadcast(0, "playerLeft", [userID |-> userIdOf[ws]], conn')>>
    /\ op' = [name |-> "close", outcome |-> "left"]
    /\ leaveLog' = [leaveLog EXCEPT ![ws] = LogRun(@, emits')]
    /\ UNCHANGED <<draft, players, rooms, connectedPlayers, playerCount,
                   worldPlayers, connectedSockets, userIdOf, heard>>

NextRawWorld ==
    \/ \E ws \in Connections, q \in RW_Handshakes : RW_Connection(ws, q)
    \/ \E ws \in Connections, data \in RawMessages : RW_Message(ws, data)
    \/ \E ws \in Connections : RW_Close(ws)
    \/ \E ws \in Connections : RejectedEvent(ws)

---------------------------------------------------------------------------
(* World, src/World.js *)

\* the handshakes of World.js, which reads userId, userToken and zone
WJ_Handshakes ==
    {q \in Handshakes({"tok"}, {"z1", "missing"}) : q.worldId = "this"}

\* the messages a client sends to World.js
WJ_Messages ==
    { [type |-> "unparseable"],
      [type |-> "joinGameWorld", userID |-> "u1", zone |-> "z1"],
      [type |-> "joinGameWorld", userID |-> "u1"],
      [type |-> "chatMessage", message |-> "hi"],
      [type |-> "ping"] }

\* ws.id
WsId(ws) == "undefined"

\* urlParams.get(f): null when the parameter is missing
QueryGet(q, f) == IF Missing(q, f) THEN Null ELSE q[f]

\* the entry the connection handler stores
WJ_NewEntry(ws, q) ==
    [socket |-> ws, userID |-> QueryGet(q, "userId"), currentZone |-> QueryGet(q, "zone")]

\* World.broadcastWorldsUpdate(): an empty method, it sends nothing
broadcastWorldsUpdate == <<>>

\* this.wss.clients.forEach(client => ...): every client whose readyState is
\* OPEN, except the given one (0: none)
WJ_SendToOpen(except, ev, payload, cn) ==
    Emit(ev, {client \in Connections : cn[client] = "open" /\ client # except}, payload)

\* this.wss.on("connection", (ws, req) => ...)
WJ_Connection(ws, q) ==
    /\ draft = "worldJs"
    /\ conn[ws] = "new"
    /\ currentPlayers' = currentPlayers + 1
    /\ connectedSockets' = [connectedSockets EXCEPT ![WsId(ws)] = WJ_NewEntry(ws, q)]
    /\ userIdOf' = [userIdOf EXCEPT ![ws] = QueryGet(q, "userId")]
    /\ conn' = [conn EXCEPT ![ws] = "open"]
    /\ emits' = broadcastWorldsUpdate
    /\ op' = [name |-> "connection", outcome |-> "accepted"]
    /\ UNCHANGED <<draft, serverVars, connectedPlayers, playerCount, worldPlayers,
                   connectedClients, heard>>

\* ws.on("message", ...), data.type === "joinGameWorld" && data.userID && data.zone
WJ_JoinGameWorld(ws, data) ==
    LET playerEntry == connectedSockets[WsId(ws)]
    IN  /\ connectedSockets' =
              IF playerEntry # NoEntry
              THEN [connectedSockets EXCEPT ![WsId(ws)] =
                        [playerEntry EXCEPT !.currentZone = data.zone]]
              ELSE connectedSockets
        /\ emits' = << WsSend(ws, "worldJoinedConfirmed", [zoneId |-> data.zone]),
                       WJ_SendToOpen(ws, "playerJoined",
                                     [userID |-> data.userID, username |-> "Player",
                                      zone |-> data.zone], conn) >>
        /\ op' = [name |-> "joinGameWorld", outcome |-> "done"]

\* ws.on("message", ...), data.type === "chatMessage" && data.message
WJ_ChatMessage(ws, data) ==
    /\ emits' = <<WJ_SendToOpen(0, "chatMessage",
                                [userID |-> userIdOf[ws], message |-> data.message], conn)>>
    /\ op' = [name |-> "chatMessage", outcome |-> "done"]
    /\ UNCHANGED connectedSockets

\* ws.on("message", msg => ...)
WJ_Message(ws, data) ==
    /\ draft = "worldJs"
    /\ conn[ws] = "open"
    /\ UNCHANGED <<draft, conn, serverVars, connectedPlayers, playerCount,
                   worldPlayers, connectedClients, currentPlayers, userIdOf, heard>>
    /\ CASE data.type = "unparseable" -> Dropped("threw") /\ UNCHANGED connectedSockets
         [] /\ data.type = "joinGameWorld"
            /\ Has(data, "userID") /\ Has(data, "zone") -> WJ_JoinGameWorld(ws, data)
         [] data.type = "chatMessage" /\ Has(data, "message") -> WJ_ChatMessage(ws, data)
         [] OTHER -> Dropped("unknownType") /\ UNCHANGED connectedSockets

\* ws.connectionData?.userID || 'Unknown'
DisconnectedUserID(ws) == IF userIdOf[ws] = Null THEN "Unknown" ELSE userIdOf[ws]

\* the body of ws.on("close", ...) for a table of connection states cn
WJ_CloseHandler(ws, cn) ==
    /\ currentPlayers' = currentPlayers - 1
    /\ connectedSockets' = [connectedSockets EXCEPT ![WsId(ws)] = NoEntry]
    /\ emits' = broadcastWorldsUpdate \o
                <<WJ_SendToOpen(0, "playerLeft", [userID |-> DisconnectedUserID(ws)], cn)>>
    /\ leaveLog' = [leaveLog EXCEPT ![ws] = LogRun(@, emits')]
    /\ UNCHANGED <<draft, players, rooms, connectedPlayers, playerCount, worldPlayers,
                   connectedClients, userIdOf, heard>>

\* ws.on("close", (code, reason) => ...): the closing socket is no longer OPEN
WJ_Close(ws) ==
    /\ draft = "worldJs"
    /\ conn[ws] = "open"
    /\ conn' = [conn EXCEPT ![ws] = "closed"]
    /\ op' = [name |-> "close", outcome |-> "left"]
    /\ WJ_CloseHandler(ws, conn')

NextWorldJs ==
    \/ \E ws \in Connections, q \in WJ_Handshakes : WJ_Connection(ws, q)
    \/ \E ws \in Connections, data \in WJ_Messages : WJ_Message(ws, data)
    \/ \E ws \in Connections : WJ_Close(ws)

---------------------------------------------------------------------------
(* A disconnect or close handler of the counter-based drafts fires again *)

\* the handler of connection c was registered, has run, and may run again
MayFireAgain(c) ==
    /\ conn[c] = "closed"
    /\ userIdOf[c] # NoUser
    /\ leaveLog[c].runs < MaxDisconnectRuns

\* WorldSystem: socket.on("disconnect", ...) runs once more
WS_DisconnectAgain(c) ==
    /\ draft = "WorldSystem"
    /\ MayFireAgain(c)
    /\ connectedPlayers' = [connectedPlayers EXCEPT ![userIdOf[c]] = NoEntry]
    /\ playerCount' = playerCount - 1
    /\ emits' = <<Broadcast(connectedPlayers', c, "playerLeft",
                            [userID |-> userIdOf[c]], conn)>>
    /\ heard' = Hear(heard, emits', conn)
    /\ op' = [name |-> "disconnectAgain", outcome |-> "left"]
    /\ leaveLog' = [leaveLog EXCEPT ![c] = LogRun(@, emits')]
    /\ UNCHANGED <<draft, conn, players, rooms, worldPlayers, connectedClients,
                   connectedSockets, currentPlayers, userIdOf>>

\* raw-WebSocket World: ws.on("close", ...) runs once more
RW_CloseAgain(ws) ==
    /\ draft = "rawWorld"
    /\ MayFireAgain(ws)
    /\ currentPlayers' = currentPlayers - 1
    /\ connectedClients' = [connectedClients EXCEPT ![ws] = NoEntry]
    /\ emits' = <<RW_Broadcast(0, "playerLeft", [userID |-> userIdOf[ws]], conn)>>
    /\ op' = [name |-> "closeAgain", outcome |-> "left"]
    /\ leaveLog' = [leaveLog EXCEPT ![ws] = LogRun(@, emits')]
    /\ UNCHANGED <<draft, conn, players, rooms, connectedPlayers, playerCount,
                   worldPlayers, connectedSockets, userIdOf, heard>>

\* World.js: ws.on("close", ...) runs once more
WJ_CloseAgain(ws) ==
    /\ draft = "worldJs"
    /\ MayFireAgain(ws)
    /\ op' = [name |-> "closeAgain", outcome |-> "left"]
    /\ WJ_CloseHandler(ws, conn)
    /\ UNCHANGED conn

NextFireAgain ==
    \/ \E c \in Connections : WS_DisconnectAgain(c)
    \/ \E ws \in Connections : RW_CloseAgain(ws)
    \/ \E ws \in Connections : WJ_CloseAgain(ws)

---------------------------------------------------------------------------
(* The drafts and the initial state *)

RoomDrafts == {"WorldSystem", "namespace", "rawWorld"}

\* the sockets or connections of a draft
Peers(d) == IF d \in ServerDrafts THEN Sockets ELSE Connections

\* the state after construction: no connection yet, empty tables, counters
\* 0; the history `heard` is kept for the connections in `observers`
InitDraft(drafts, observers) ==
    /\ draft \in drafts
    /\ conn = [s \in Peers(draft) |-> "new"]
    /\ emits = <<>>
    /\ op = [name |-> "init", outcome |-> "constructed"]
    /\ players = [s \in Sockets |-> NoRecord]
    /\ rooms = [s \in Sockets |-> {}]
    /\ leaveLog = [s \in Peers(draft) |->
                      [had |-> FALSE, runs |-> 0, left |-> 0, pushes |-> 0]]
    /\ connectedPlayers = [u \in UserIds |-> NoEntry]
    /\ playerCount = 0
    /\ worldPlayers = [u \in UserIds |-> NoEntry]
    /\ connectedClients = [c \in Connections |-> NoEntry]
    /\ connectedSockets = [k \in WsIds |-> NoEntry]
    /\ currentPlayers = 0
    /\ userIdOf = [c \in Connections |-> NoUser]
    /\ heard = [c \in observers |->
                  IF draft \in ServerDrafts THEN NoSocketHeard ELSE NothingHeard]

NextServer ==
    \/ \E s \in Sockets : Connect(s)
    \/ \E s \in Sockets, data \in JoinInputs : JoinWorld(s, data)
    \/ \E s \in Sockets, data \in UpdateInputs : UpdatePlayer(s, data)
    \/ \E s \in Sockets : Disconnect(s)
    \/ \E s \in Sockets : DisconnectAgain(s)

\* src/server.js, lines 1-146
InitServer == InitDraft({"server1"}, {})

SpecServer == InitServer /\ [][NextServer]_vars

\* src/server.js, lines 1-146, with the history of what each socket was sent
InitServerHeard == InitDraft({"server1"}, Sockets)

SpecServerHeard == InitServerHeard /\ [][NextServer]_vars

\* the players-table server with its world-list request, in the first draft
\* of src/server.js and in src/unnamed/part_001
InitServerList == InitDraft({"server1", "part001"}, {})

NextServerList == NextServer \/ \E s \in Sockets : GetWorldList(s)

SpecServerList == InitServerList /\ [][NextServerList]_vars

\* the players-table server with updatePlayer messages that arrive after the
\* disconnect, under each of the two guards of updatePlayer
InitServerLate == InitDraft({"server1", "part000"}, {})

NextServerLate ==
    NextServer \/ \E s \in Sockets, data \in UpdateInputs : LateUpdatePlayer(s, data)

SpecServerLate == InitServerLate /\ [][NextServerLate]_vars

\* the drafts with a try/catch around their message handling: WorldSystem
\* and the first draft of src/server.js
InitCaught == InitDraft({"WorldSystem", "server1"}, {})

NextCaught == NextWorldSystem \/ NextServer

SpecCaught == InitCaught /\ [][NextCaught]_vars

\* the drafts with a membership table whose entries hold a socket: players
\* (src/server.js), connectedPlayers (WorldSystem) and world.players (the
\* namespace server)
InitTables == InitDraft({"server1", "WorldSystem", "namespace"}, {})

NextTables == NextServer \/ NextWorldSystem \/ NextNamespace

SpecTables == InitTables /\ [][NextTables]_vars

\* every draft of the players-table server
InitServerDrafts == InitDraft(ServerDrafts, {})

SpecServerDrafts == InitServerDrafts /\ [][NextServer]_vars

\* src/WorldSystem.js
InitWorldSystem == InitDraft({"WorldSystem"}, {})

SpecWorldSystem == InitWorldSystem /\ [][NextWorldSystem]_vars

\* src/WorldSystem.js, with messages that arrive after the disconnect
NextWorldSystemLate ==
    NextWorldSystem \/ \E c \in Connections, data \in Messages : WS_LateMessage(c, data)

SpecWorldSystemLate == InitWorldSystem /\ [][NextWorldSystemLate]_vars

\* src/WorldSystem.js, with the history of what each connection was sent
InitWorldSystemHeard == InitDraft({"WorldSystem"}, Connections)

SpecWorldSystemHeard == InitWorldSystemHeard /\ [][NextWorldSystem]_vars

\* src/unnamed/part_002, the namespace server
InitNamespace == InitDraft({"namespace"}, {})

SpecNamespace == InitNamespace /\ [][NextNamespace]_vars

\* src/unnamed/part_002, the raw-WebSocket World
InitRawWorld == InitDraft({"rawWorld"}, {})

SpecRawWorld == InitRawWorld /\ [][NextRawWorld]_vars

\* the drafts that test a stored population counter against maxPlayers:
\* WorldSystem and the raw-WebSocket World
InitCounters == InitDraft({"WorldSystem", "rawWorld"}, {})

NextCounters == NextWorldSystem \/ NextRawWorld

SpecCounters == InitCounters /\ [][NextCounters]_vars

\* every path-routed draft
InitRooms == InitDraft(RoomDrafts, {})

NextRooms == NextWorldSystem \/ NextNamespace \/ NextRawWorld

SpecRooms == InitRooms /\ [][NextRooms]_vars

\* src/World.js
InitWorldJs == InitDraft({"worldJs"}, {})

SpecWorldJs == InitWorldJs /\ [][NextWorldJs]_vars

\* the drafts that publish a world list: the namespace server and World.js
InitLobby == InitDraft({"namespace", "worldJs"}, {})

NextLobby == NextNamespace \/ NextWorldJs

SpecLobby == InitLobby /\ [][NextLobby]_vars

\* the drafts whose leave handler counts down unconditionally, with handlers
\* that fire again
InitFireAgain == InitDraft({"WorldSystem", "rawWorld", "worldJs"}, {})

NextWithFireAgain ==
    NextWorldSystem \/ NextRawWorld \/ NextWorldJs \/ NextFireAgain

SpecFireAgain == InitFireAgain /\ [][NextWithFireAgain]_vars

---------------------------------------------------------------------------
(* Claims *)

\* the membership map of a counter-based draft, by userId
Members == IF draft = "WorldSystem" THEN connectedPlayers ELSE worldPlayers

\* the number of entries of a map
Size(map) == Cardinality({k \in DOMAIN map : map[k] # NoEntry})

\* C1: in WorldSystem and in the namespace server, the stored population
\* counter world.playerCount equals the number of entries of the membership
\* map (connectedPlayers / world.players) in every reachable state, two live
\* connections with the same userId included.
C1_CounterEqualsMembers ==
    draft \in {"WorldSystem", "namespace"} => playerCount = Size(Members)

\* C2: in the players-table server no configured world ever holds more
\* player records than its maxPopulation, so the fullness reported by
\* getWorldsWithPopulation stays within [0, 1].
C2_PopulationWithinCapacity ==
    \A i \in 1..Len(worlds) :
        /\ Population(players, worlds[i].id) <= worlds[i].maxPopulation
        /\ getWorldsWithPopulation(players)[i].full.num >= 0
        /\ getWorldsWithPopulation(players)[i].full.num
              <= getWorldsWithPopulation(players)[i].full.den

\* the population counter of a capacity-checking draft
Counter == IF draft = "WorldSystem" THEN playerCount ELSE currentPlayers

\* the connection handler of WorldSystem or of the raw-WebSocket World runs
\* for connection c with handshake q
CapacityCheckedConnection(c, q) ==
    WS_HandleConnection(c, q) \/ RW_Connection(c, q)

\* connection c is told the world is full and disconnected; the maps, the
\* counters and what every other connection is sent are as before
ToldFullAndNothingChanged(c) ==
    /\ conn' = [conn EXCEPT ![c] = "rejected"]
    /\ Delivered(emits', "worldFull", c) # {}
    /\ \A i \in 1..Len(emits') : emits'[i].to \subseteq {c}
    /\ UNCHANGED <<connectedPlayers, playerCount, connectedClients, currentPlayers>>

\* a later event of a rejected connection changes nothing and emits nothing
RejectedStaysOut ==
    \A c \in Connections :
        conn[c] = "rejected" /\ RejectedEvent(c) =>
            /\ emits' = <<>>
            /\ UNCHANGED <<connectedPlayers, playerCount, connectedClients,
                           currentPlayers>>

\* C3, as stated: in WorldSystem and in the raw-WebSocket World every
\* connection that arrives while the counter is >= maxPlayers is told the
\* world is full and disconnected, with the membership map, the counter and
\* the events of the other connections untouched, and its later disconnect
\* changes nothing.
C3_FullWorldTellsEveryArrival ==
    [][ /\ Counter >= MaxPlayers =>
              \A c \in Connections :
                  conn[c] = "new" /\ conn'[c] # "new" =>
                      \A q \in WS_Handshakes \cup RW_Handshakes :
                          CapacityCheckedConnection(c, q)
                              => ToldFullAndNothingChanged(c)
        /\ RejectedStaysOut ]_vars

\* C3, amended: the same for every connection whose handshake carries
\* userId and worldId (the handlers validate the handshake before they test
\* the capacity).
C3_FullWorldRejectsValidArrival ==
    [][ /\ Counter >= MaxPlayers =>
              \A c \in Connections :
                  conn[c] = "new" /\ conn'[c] # "new" =>
                      \A q \in WS_Handshakes \cup RW_Handshakes :
                          /\ ~Missing(q, "userId") /\ ~Missing(q, "worldId")
                          /\ CapacityCheckedConnection(c, q)
                          => ToldFullAndNothingChanged(c)
        /\ RejectedStaysOut ]_vars

\* a connection has just been turned away from a full world that holds
\* other open connections
C3_Witness ==
    /\ op = [name |-> "connection", outcome |-> "full"]
    /\ Counter >= MaxPlayers
    /\ \E c \in Connections :
          /\ conn[c] = "rejected"
          /\ Delivered(emits, "worldFull", c) # {}
    /\ \E d \in Connections : conn[d] = "open"

\* the connection handler of WorldSystem or of the namespace server runs for
\* connection c with handshake q
UserKeyedConnection(c, q) ==
    WS_HandleConnection(c, q) \/ NS_Connection(c, q)

\* C4: in WorldSystem and in the namespace server a connection that presents
\* a userId which already has an entry in the membership map is rejected:
\* the existing entry is not replaced and the map and the counter are
\* unchanged.
C4_DuplicateUserIdRejected ==
    [][ \A c \in Connections, q \in WS_Handshakes \cup NS_Handshakes :
            /\ conn[c] = "new" /\ conn'[c] # "new"
            /\ ~Missing(q, "userId")
            /\ Members[q.userId] # NoEntry
            /\ UserKeyedConnection(c, q)
            => /\ conn'[c] = "rejected"
               /\ UNCHANGED <<connectedPlayers, worldPlayers, playerCount>> ]_vars

\* C5: in the players-table server all player records of one userID name
\* the same world.
C5_OneWorldPerUserID ==
    \A s \in Sockets, t \in Sockets :
        /\ players[s] # NoRecord
        /\ players[t] # NoRecord
        /\ players[s].userID = players[t].userID
        => players[s].world = players[t].world

\* the sockets other than s whose record in the table pl names world w
RecordsIn(pl, w, s) ==
    {t \in Sockets \ {s} : pl[t] # NoRecord /\ pl[t].world = w}

\* C6: in the players-table server, after updatePlayer from a socket s that
\* has a record in a configured world w, every other socket whose record is
\* in w is sent exactly one playerUpdate carrying s's updated record, and s
\* is sent none.
C6_UpdateReachesWorldMembers ==
    [][ \A s \in Sockets, data \in UpdateInputs :
            /\ UpdatePlayer(s, data)
            /\ players[s] # NoRecord
            /\ players[s].world \in WorldIds
            => /\ Delivered(emits', "playerUpdate", s) = {}
               /\ \A t \in RecordsIn(players', players[s].world, s) :
                     /\ Cardinality(Delivered(emits', "playerUpdate", t)) = 1
                     /\ \A i \in Delivered(emits', "playerUpdate", t) :
                           emits'[i].payload = players'[s] ]_vars

\* if w is a configured world, every socket the emission e reaches holds a
\* record of w
OnlyToRecordsIn(pl, e, w) ==
    w \in WorldIds => \A t \in e.to : pl[t] # NoRecord /\ pl[t].world = w

\* C7: in the players-table server every playerJoined, playerUpdate and
\* playerLeft emitted for a configured world w reaches only sockets whose
\* current record names w: a playerJoined or playerUpdate is for the world of the
\* record it carries, a playerLeft for the world of the record it removes.
C7_WorldEventsStayInWorld ==
    [][ \A i \in 1..Len(emits') :
            /\ emits'[i].ev \in {"playerJoined", "playerUpdate"}
                  => OnlyToRecordsIn(players', emits'[i], emits'[i].payload.world)
            /\ emits'[i].ev = "playerLeft"
                  => OnlyToRecordsIn(players', emits'[i],
                                     players[emits'[i].payload.socketId].world) ]_vars

\* the last handler run was a successful joinWorld of socket a
JustJoined(a) ==
    /\ op = [name |-> "joinWorld", outcome |-> "joined"]
    /\ Delivered(emits, "playerList", a) # {}

\* C8: in the players-table server, when socket a joins world w and then
\* sends updatePlayer, every socket that held a record of w when a joined
\* and is sent that playerUpdate was sent playerJoined(a) by the join.
C8_JoinedBeforeUpdate ==
    [][ \A a \in Sockets, data \in UpdateInputs :
            UpdatePlayer(a, data) /\ JustJoined(a)
            => \A t \in RecordsIn(players, players[a].world, a) :
                   Delivered(emits', "playerUpdate", t) # {}
                       => Delivered(emits, "playerJoined", t) # {} ]_vars

\* C9: in WorldSystem a connection is sent playerMoved or chatMessage of an
\* identity only while the last it was sent of that identity's playerJoined
\* and playerLeft is the playerJoined, and is sent playerLeft of an identity
\* only after it was sent that identity's playerJoined.
C9_StateChangeAfterJoined ==
    [][ \A c \in DOMAIN heard, i \in 1..Len(emits') :
            c \in emits'[i].to
            => /\ emits'[i].ev \in {"playerMoved", "chatMessage"}
                     => heard[c][emits'[i].payload.userID] = "joined"
               /\ emits'[i].ev = "playerLeft"
                     => heard[c][emits'[i].payload.userID] # "none" ]_vars

\* a further run of the disconnect handler changes no state
SecondRunChangesNothing ==
    \A s \in Sockets : DisconnectAgain(s) => UNCHANGED <<players, rooms, conn>>

\* C10, as stated: in the players-table server, once the disconnect handler
\* of a socket has run twice, exactly one playerLeft was emitted and exactly
\* one worldListUpdate pushed by its runs, and the second run changes no
\* state.
C10_SecondRunOneLeaveEverySocket ==
    [][ /\ \A s \in Sockets :
              leaveLog'[s].runs >= 2
                  => leaveLog'[s].left = 1 /\ leaveLog'[s].pushes = 1
        /\ SecondRunChangesNothing ]_vars

\* C10, amended: the same for a socket that held a player record when its
\* connection closed; the runs of a socket that held none emit nothing.
C10_SecondRunIsNoOp ==
    [][ /\ \A s \in Sockets :
              leaveLog'[s].runs >= 2
                  => IF leaveLog'[s].had
                     THEN leaveLog'[s].left = 1 /\ leaveLog'[s].pushes = 1
                     ELSE leaveLog'[s].left = 0 /\ leaveLog'[s].pushes = 0
        /\ SecondRunChangesNothing ]_vars

\* the disconnect handler of a socket that had joined a world has run twice
C10_Witness ==
    /\ op.name = "disconnectAgain"
    /\ \E s \in Sockets : leaveLog[s].had /\ leaveLog[s].runs >= 2


\* a disconnect or close handler of connection c fires again
FiresAgain(c) == WS_DisconnectAgain(c) \/ RW_CloseAgain(c) \/ WJ_CloseAgain(c)

\* C11: in the counter-based drafts (WorldSystem, the raw-WebSocket World,
\* World.js) a second firing of the disconnect or close handler of one
\* connection leaves the population counter unchanged and broadcasts no
\* second playerLeft
C11_SecondFiringIsNoOp ==
    [][\A c \in Connections :
          FiresAgain(c) =>
              /\ UNCHANGED <<playerCount, currentPlayers>>
              /\ Calls(emits', "playerLeft") = {}]_vars


\* the connection whose socket a membership entry holds
SocketOf(entry) == IF draft = "WorldSystem" THEN entry.socket ELSE entry.socketId

\* the disconnect handler of WorldSystem or of the namespace server runs for
\* connection c
UserKeyedDisconnect(c) == WS_Disconnect(c) \/ NS_Disconnect(c)

\* C12: in WorldSystem and in the namespace server the disconnect of a
\* connection triggers exactly one leave, for the Session that connection
\* created and no other: one playerLeft, the counter one lower, and an entry
\* that holds another connection's socket (two live connections of one
\* userId included) stays in the map.
C12_DisconnectLeavesOwnSessionOnly ==
    [][ \A c \in Connections :
            conn[c] = "open" /\ conn'[c] = "closed" /\ UserKeyedDisconnect(c) =>
                /\ Cardinality(Calls(emits', "playerLeft")) = 1
                /\ playerCount' = playerCount - 1
                /\ \A u \in UserIds :
                       Members[u] # NoEntry /\ SocketOf(Members[u]) # c
                           => Members'[u] = Members[u] ]_vars


\* the playerLeft events about socket a that the emissions es deliver to t
LeftDelivered(es, a, t) ==
    {i \in Delivered(es, "playerLeft", t) : es[i].payload.socketId = a}

\* the population a worldListUpdate snapshot shows for world w
Shown(snapshot, w) ==
    {snapshot[i].population : i \in {i \in 1..Len(snapshot) : snapshot[i].id = w}}

\* C13: in the players-table server, when the connection of a joined socket
\* A closes, every still-connected socket that was earlier sent playerJoined
\* for A, in whichever world, is sent exactly one playerLeft for A, and the
\* next population snapshot shows A's world reduced by exactly 1.
C13_LeaveReachesWhoHeardJoin ==
    [][ \A a \in Sockets :
            conn[a] = "open" /\ players[a] # NoRecord /\ Disconnect(a) =>
                /\ \A t \in DOMAIN heard :
                       conn'[t] = "open" /\ heard[t][a] = "joined"
                           => Cardinality(LeftDelivered(emits', a, t)) = 1
                /\ \A i \in Calls(emits', "worldListUpdate") :
                       players[a].world \in WorldIds =>
                           Shown(emits'[i].payload, players[a].world)
                               = {Population(players, players[a].world) - 1} ]_vars


\* the records among the first n sockets whose world is id, counted one
\* socket at a time
RECURSIVE RecordsOfWorld(_, _, _)
RecordsOfWorld(pl, id, n) ==
    IF n = 0
    THEN 0
    ELSE RecordsOfWorld(pl, id, n - 1)
           + (IF pl[n] # NoRecord /\ pl[n].world = id THEN 1 ELSE 0)

\* the world lists the last handler sent
SnapshotsSent == Calls(emits, "worldListUpdate") \cup Calls(emits, "worldListResponse")

\* C14: every world list getWorldsWithPopulation produces has, in configured
\* order, exactly one entry per configured world, whose population is the
\* number of records of the players table with that world id and whose full
\* is population / maxPopulation.
C14_SnapshotCountsRecords ==
    \A i \in SnapshotsSent :
        LET snapshot == emits[i].payload
        IN  /\ Len(snapshot) = Len(worlds)
            /\ \A k \in 1..Len(worlds) :
                   /\ snapshot[k].id = worlds[k].id
                   /\ snapshot[k].population
                         = RecordsOfWorld(players, worlds[k].id, NumSockets)
                   /\ snapshot[k].full
                         = [num |-> snapshot[k].population,
                            den |-> worlds[k].maxPopulation]

\* two sockets have joined world 1 and a requested world list shows 2 there
\* and 0 in world 2
C14_Witness ==
    \E i \in Calls(emits, "worldListResponse") :
        /\ emits[i].payload[1].population = 2
        /\ emits[i].payload[1].full = [num |-> 2, den |-> MaxPopulation]
        /\ emits[i].payload[2].population = 0


\* the last handler run was a joinWorld that stored a record, or the
\* disconnect handler of a socket that held a record
MembershipChanged ==
    \/ op = [name |-> "joinWorld", outcome |-> "joined"]
    \/ op = [name |-> "disconnect", outcome |-> "left"]

\* the snapshot lists every configured world with the number of records the
\* table pl holds for it
SnapshotOf(snapshot, pl) ==
    /\ Len(snapshot) = Len(worlds)
    /\ \A k \in 1..Len(worlds) :
           /\ snapshot[k].id = worlds[k].id
           /\ snapshot[k].population = RecordsOfWorld(pl, worlds[k].id, NumSockets)

\* C15: in the players-table server every successful joinWorld and every
\* disconnect of a joined socket pushes exactly one worldListUpdate, to every
\* connected socket (those that never joined a world included), and it holds
\* the full snapshot computed after the membership change.
C15_MembershipChangePushesSnapshot ==
    MembershipChanged =>
        /\ Cardinality(Calls(emits, "worldListUpdate")) = 1
        /\ \A i \in Calls(emits, "worldListUpdate") :
               /\ emits[i].to = {t \in Sockets : conn[t] = "open"}
               /\ SnapshotOf(emits[i].payload, players)

\* a joinWorld has succeeded and its worldListUpdate reached a connected
\* socket that never joined a world
C15_Witness ==
    /\ op = [name |-> "joinWorld", outcome |-> "joined"]
    /\ \E t \in Sockets :
           /\ conn[t] = "open"
           /\ players[t] = NoRecord
           /\ rooms[t] = {}
           /\ Delivered(emits, "worldListUpdate", t) # {}


\* the emissions of the last handler that carry the World's player count to
\* a client
CountDelivered ==
    {i \in 1..Len(emits) :
        /\ emits[i].to # {}
        /\ Has(emits[i].payload, "currentPlayers")
        /\ emits[i].payload.currentPlayers = currentPlayers}

\* C16: in the path-routed drafts a membership change reaches the lobby: a
\* worldList sent to a lobby client reports the world as populated when its
\* current player count is not 0 and as empty when it is 0 (namespace
\* server), and the connect and close handlers of World.js, which call
\* World.broadcastWorldsUpdate, deliver the updated player count to clients.
C16_LobbySeesMembership ==
    /\ draft = "namespace" =>
           \A i \in Calls(emits, "worldList") :
               \A k \in 1..Len(emits[i].payload) :
                   (emits[i].payload[k].full = 0) <=> (playerCount = 0)
    /\ draft = "worldJs" /\ op.name \in {"connection", "close"} =>
           CountDelivered # {}


\* connection c is turned away and closed; the maps, the counters and what
\* every other connection is sent are as before
TurnedAwayAndNothingChanged(c) ==
    /\ conn' = [conn EXCEPT ![c] = "rejected"]
    /\ userIdOf'[c] = NoUser
    /\ \A i \in 1..Len(emits') : emits'[i].to \subseteq {c}
    /\ UNCHANGED <<connectedPlayers, playerCount, connectedClients, currentPlayers>>

\* C17: in WorldSystem and in the raw-WebSocket World of part_002 a handshake
\* that lacks userId or worldId is rejected and closed before any Session
\* exists: the membership map and the counter are unchanged, nothing is sent
\* to any other connection, and no later message or disconnect of that
\* connection changes the Room's state.
C17_IncompleteHandshakeRejected ==
    [][ /\ \A c \in Connections :
               conn[c] = "new" /\ conn'[c] # "new" =>
                   \A q \in WS_Handshakes \cup RW_Handshakes :
                       /\ Missing(q, "userId") \/ Missing(q, "worldId")
                       /\ CapacityCheckedConnection(c, q)
                       => TurnedAwayAndNothingChanged(c)
        /\ RejectedStaysOut ]_vars

\* a handshake without userId or worldId has just been turned away while
\* another connection is a member of the Room
C17_Witness ==
    /\ draft \in {"WorldSystem", "rawWorld"}
    /\ op = [name |-> "connection", outcome |-> "invalid"]
    /\ \E c \in Connections : conn[c] = "rejected" /\ userIdOf[c] = NoUser
    /\ \E d \in Connections : conn[d] = "open"
    /\ Counter = 1


\* the worldId of handshake q does not identify the Room's world
\* (WorldSystem), or is missing (namespace server)
WrongWorld(q) ==
    \/ draft = "WorldSystem" /\ q.worldId # "this"
    \/ draft = "namespace" /\ Missing(q, "worldId")

\* C18: a handshake whose worldId does not identify the same world as the
\* Room (WorldSystem), or whose worldId is missing (namespace server), is
\* rejected before any Session is created.
C18_WrongWorldRejected ==
    [][ \A c \in Connections :
            conn[c] = "new" /\ conn'[c] # "new" =>
                \A q \in WS_Handshakes \cup NS_Handshakes :
                    WrongWorld(q) /\ UserKeyedConnection(c, q)
                        => /\ conn'[c] = "rejected"
                           /\ UNCHANGED <<connectedPlayers, worldPlayers, playerCount>> ]_vars


\* the joinWorld data objects that carry no userID
JoinInputsWithoutUserID ==
    {data \in JoinInputs \ {NoData} : ~Has(data, "userID")}

\* socket s sends a joinWorld whose data object carries no userID
JoinWithoutUserID(s) ==
    /\ conn[s] = "open"
    /\ \E data \in JoinInputsWithoutUserID : JoinWorld(s, data)

\* C19, as stated: in every draft of the players-table server a joinWorld
\* without userID is silently dropped: the players table and the rooms are
\* unchanged and nothing at all is emitted, neither to the sender nor to
\* others.
C19_NoUserIDDroppedSilently ==
    [][ op'.name = "joinWorld" =>
            \A s \in Sockets :
                JoinWithoutUserID(s) =>
                    /\ UNCHANGED <<players, rooms>>
                    /\ emits' = <<>> ]_vars

\* C19, amended: the players table and the rooms are unchanged and nothing
\* is emitted to any other socket; the sender is sent nothing either, except
\* by the first draft of src/server.js, which sends it one error_message.
C19_NoUserIDDropped ==
    [][ op'.name = "joinWorld" =>
            \A s \in Sockets :
                JoinWithoutUserID(s) =>
                    /\ UNCHANGED <<players, rooms>>
                    /\ \A i \in 1..Len(emits') : emits'[i].to = {s}
                    /\ IF draft = "server1"
                       THEN /\ Len(emits') = 1
                            /\ emits'[1].ev = "error_message"
                       ELSE emits' = <<>> ]_vars

\* a joinWorld without userID has just been answered with error_message
\* while another socket holds a record
C19_Witness ==
    /\ op = [name |-> "joinWorld", outcome |-> "noUserID"]
    /\ \E s \in Sockets :
           /\ Delivered(emits, "error_message", s) # {}
           /\ players[s] = NoRecord
           /\ \E t \in Sockets \ {s} : conn[t] = "open" /\ players[t] # NoRecord


\* the joinWorld data objects whose worldId is not a configured world
JoinInputsUnconfigured ==
    {data \in JoinInputs \ {NoData} : data.worldId \notin WorldIds}

\* socket s sends a joinWorld whose worldId is not a configured world
JoinUnconfiguredWorld(s) ==
    /\ conn[s] = "open"
    /\ \E data \in JoinInputsUnconfigured : JoinWorld(s, data)

\* C20: in the players-table server a joinWorld whose worldId is not a
\* configured world is rejected before any room-level state is touched: no
\* record is stored, no room is joined, and no playerList, playerJoined or
\* worldListUpdate is emitted.
C20_UnconfiguredWorldRejected ==
    [][ op'.name = "joinWorld" =>
            \A s \in Sockets :
                JoinUnconfiguredWorld(s) =>
                    /\ UNCHANGED <<players, rooms>>
                    /\ Calls(emits', "playerList") = {}
                    /\ Calls(emits', "playerJoined") = {}
                    /\ Calls(emits', "worldListUpdate") = {} ]_vars


\* C21: in the players-table server a successful joinWorld into a configured
\* world w sends playerList to the joiner only, holding exactly the records
\* of the other sockets currently in w, and sends playerJoined with the
\* joiner's record to exactly those other sockets and not to the joiner.
C21_JoinTellsWorldMembers ==
    op = [name |-> "joinWorld", outcome |-> "joined"] =>
        \A a \in Sockets :
            JustJoined(a) /\ players[a].world \in WorldIds =>
                LET others == RecordsIn(players, players[a].world, a)
                IN  /\ \A t \in Sockets \ {a} : Delivered(emits, "playerList", t) = {}
                    /\ \A i \in Delivered(emits, "playerList", a) :
                           emits[i].payload = {players[t] : t \in others}
                    /\ \A i \in Calls(emits, "playerJoined") :
                           /\ emits[i].payload = players[a]
                           /\ emits[i].to = others


\* the identity a playerList entry names: id in the namespace server, userID
\* in WorldSystem and in the raw-WebSocket World
ListedIdentity(entry) == IF draft = "namespace" THEN entry.id ELSE entry.userID

\* C22: in the path-routed drafts the playerList sent to a joiner (WorldSystem
\* joinGameWorld, namespace connection handler, raw-WebSocket
\* joinMultiplayerServer) never contains an entry for the joiner's own
\* identity.
C22_PlayerListExcludesJoiner ==
    draft \in RoomDrafts =>
        \A i \in Calls(emits, "playerList") :
            \A c \in emits[i].to :
                \A entry \in emits[i].payload : ListedIdentity(entry) # userIdOf[c]


\* the updatePlayer handler runs for a message of socket s
UpdateFrom(s) ==
    \E data \in UpdateInputs : UpdatePlayer(s, data) \/ LateUpdatePlayer(s, data)

\* C23: in the players-table server an updatePlayer from a socket that has no
\* live player record (it never joined, or it has disconnected, which
\* removed its record) is silently ignored: the players table is unchanged
\* and nothing is emitted to any socket.
C23_UpdateWithoutRecordIgnored ==
    [][ op'.name = "updatePlayer" =>
            \A s \in Sockets :
                (conn[s] = "closed" \/ players[s] = NoRecord) /\ UpdateFrom(s) =>
                    /\ UNCHANGED players
                    /\ emits' = <<>> ]_vars

\* the only socket that ever connected joined a world and disconnected, and
\* an updatePlayer of it was then ignored
C23_Witness ==
    /\ op = [name |-> "updatePlayer", outcome |-> "ignored"]
    /\ \E s \in Sockets :
           /\ conn[s] = "closed"
           /\ leaveLog[s].had
           /\ \A t \in Sockets \ {s} : conn[t] = "new"


\* C24: in WorldSystem a message (joinGameWorld or switchZone) from
\* connection c changes only the Session that c itself created: a membership
\* entry that holds the socket of a different live connection keeps its
\* wizardData and currentZone, also when both connections presented the same
\* userId.
C24_MessageChangesOwnSessionOnly ==
    [][ op'.name \in {"joinGameWorld", "switchZone"} =>
            \A c \in Connections :
                conn[c] = "open" /\ (\E data \in Messages : WS_Message(c, data)) =>
                    \A u \in UserIds :
                        /\ connectedPlayers[u] # NoEntry
                        /\ connectedPlayers[u].socket # c
                        /\ conn[connectedPlayers[u].socket] = "open"
                        => connectedPlayers'[u] = connectedPlayers[u] ]_vars


\* connection c holds a live Session: the entry of its userId holds its socket
LiveSession(c) ==
    /\ conn[c] = "open"
    /\ connectedPlayers[userIdOf[c]] # NoEntry
    /\ connectedPlayers[userIdOf[c]].socket = c

\* the connections, other than c, whose socket an entry of the map cp holds
OtherMembers(cp, c) ==
    {d \in Connections \ {c} : \E u \in UserIds : cp[u] # NoEntry /\ cp[u].socket = d}

\* the switchZone messages a client sends
SwitchZoneMessages == {data \in Messages : data.type = "switchZone"}

\* C25: in WorldSystem a switchZone from a connection with a live Session
\* sets that Session's currentZone to the requested zone and sends exactly one
\* playerMoved{userID, newZone} to every other member of the Room and none to
\* the sender; every other Session and the population counter are unchanged.
C25_SwitchZoneMovesOwnSession ==
    [][ op'.name = "switchZone" =>
            \A c \in Connections, data \in SwitchZoneMessages :
                LiveSession(c) /\ WS_Message(c, data) =>
                    /\ connectedPlayers' =
                          [connectedPlayers EXCEPT
                              ![userIdOf[c]].currentZone = data.zoneName]
                    /\ playerCount' = playerCount
                    /\ Len(emits') = 1
                    /\ emits'[1].ev = "playerMoved"
                    /\ emits'[1].payload =
                          [userID |-> userIdOf[c], newZone |-> data.zoneName]
                    /\ emits'[1].to = OtherMembers(connectedPlayers, c) ]_vars

\* a connection with a live Session has switched zone and another member
\* was sent its playerMoved
C25_Witness ==
    /\ draft = "WorldSystem"
    /\ op = [name |-> "switchZone", outcome |-> "done"]
    /\ \E c \in Connections :
           /\ LiveSession(c)
           /\ connectedPlayers[userIdOf[c]].currentZone = "z1"
           /\ Calls(emits, "playerMoved") # {}
           /\ \A i \in Calls(emits, "playerMoved") :
                  /\ emits[i].payload.userID = userIdOf[c]
                  /\ emits[i].to # {}
                  /\ c \notin emits[i].to


\* the chatMessage messages a client sends
ChatMessages == {data \in Messages : data.type = "chatMessage"}

\* the message handler of connection c runs for a chatMessage
ChatFrom(c) ==
    \E data \in ChatMessages : WS_Message(c, data) \/ WS_LateMessage(c, data)

\* C26: in WorldSystem a chatMessage sent by a connection that has no live
\* Session in the Room (the membership entry of its userId has been removed)
\* is silently dropped: no member is sent a chatMessage.
C26_ChatWithoutSessionDropped ==
    [][ op'.name = "chatMessage" =>
            \A c \in Connections :
                /\ userIdOf[c] # NoUser
                /\ connectedPlayers[userIdOf[c]] = NoEntry
                /\ ChatFrom(c)
                => \A i \in Calls(emits', "chatMessage") : emits'[i].to = {} ]_vars


\* the messages WorldSystem cannot handle: unparseable, of an unknown type,
\* or a chatMessage without payload
MalformedMessages ==
    {data \in Messages :
        \/ data.type \in {"unparseable", "ping"}
        \/ data.type = "chatMessage" /\ ~Has(data, "payload")}

\* connection c sends a malformed message to WorldSystem, or a joinWorld
\* without a data object to the players-table server
SendsMalformed(c) ==
    \/ \E data \in MalformedMessages : WS_Message(c, data)
    \/ c \in Sockets /\ JoinWorld(c, NoData)

\* C27: a malformed inbound message (unparseable, of an unknown type, a
\* chatMessage without payload in WorldSystem; a joinWorld without a data
\* object in the players-table server) is dropped: membership, Session fields
\* and counters are unchanged, nothing reaches another connection, and the
\* connection stays open, so that its later messages are still handled.
C27_MalformedMessageDropped ==
    [][ op'.name \in {"message", "chatMessage", "joinWorld"} =>
            \A c \in Connections :
                SendsMalformed(c) =>
                    /\ UNCHANGED <<players, rooms, connectedPlayers, playerCount>>
                    /\ \A i \in 1..Len(emits') : emits'[i].to \subseteq {c}
                    /\ conn' = conn
                    /\ conn'[c] = "open" ]_vars

\* a chatMessage without payload has just been dropped in a Room with two
\* members
C27_Witness ==
    /\ draft = "WorldSystem"
    /\ op = [name |-> "chatMessage", outcome |-> "threw"]
    /\ emits = <<>>
    /\ playerCount = 2
    /\ \A u \in UserIds : connectedPlayers[u] # NoEntry


\* socket s has a Session, or is the socket whose joinWorld was just rejected
\* with an error_message
JoinedOrRejected(s) ==
    \/ players[s] # NoRecord
    \/ /\ op = [name |-> "joinWorld", outcome |-> "noUserID"]
       /\ Delivered(emits, "error_message", s) # {}

\* C29: in the players-table server, Rejected and Joined are not left by a
\* joinWorld: a socket whose joinWorld was rejected does not obtain a Session
\* afterwards, and a joinWorld on a socket that already has a Session neither
\* creates nor replaces a Session.
C29_OneSessionPerSocket ==
    [][ op'.name = "joinWorld" =>
            \A s \in Sockets :
                /\ JoinedOrRejected(s)
                /\ \E data \in JoinInputs : JoinWorld(s, data)
                => players'[s] = players[s] ]_vars


\* the connection whose socket an entry of a membership table holds;
\* players is keyed by socket.id
HeldOpen(c) == conn[c] = "open"

\* C30: every entry of a membership table (players, connectedPlayers,
\* world.players) holds the socket of a connection that is still open; after
\* a connection's disconnect handler has run no entry holds its socket, also
\* when connections share a userId.
C30_EntriesHoldOpenSockets ==
    /\ draft \in ServerDrafts =>
           \A s \in Sockets : players[s] # NoRecord => HeldOpen(s)
    /\ draft = "WorldSystem" =>
           \A u \in UserIds :
               connectedPlayers[u] # NoEntry => HeldOpen(connectedPlayers[u].socket)
    /\ draft = "namespace" =>
           \A u \in UserIds :
               worldPlayers[u] # NoEntry => HeldOpen(worldPlayers[u].socketId)

\* a disconnect handler has just run while the userId of an earlier, closed
\* connection has an entry again, held by a later connection
C30_Witness ==
    /\ draft = "WorldSystem"
    /\ op.name = "disconnect"
    /\ \E c \in Connections :
           /\ conn[c] = "closed"
           /\ userIdOf[c] # NoUser
           /\ connectedPlayers[userIdOf[c]] # NoEntry
           /\ connectedPlayers[userIdOf[c]].socket # c


\* the events WorldSystem broadcasts
BroadcastEvents == {"chatMessage", "playerJoined", "playerMoved", "playerLeft"}

\* a handler of connection c that may broadcast runs: a message, or the
\* disconnect
BroadcastsFrom(c) ==
    \/ \E data \in Messages : WS_Message(c, data)
    \/ WS_Disconnect(c)

\* the connections accepted by handleConnection and not yet disconnected,
\* other than c
ConnectedOthers(cn, c) == {d \in Connections \ {c} : cn[d] = "open"}

\* C31: WorldSystem.broadcast delivers the event exactly once to every
\* connection currently connected to the world other than the sender, and
\* never to the sender, for chatMessage, playerJoined, playerMoved and
\* playerLeft and after any sequence of connects and disconnects.
C31_BroadcastReachesConnectedOthers ==
    [][ op'.name \in {"chatMessage", "joinGameWorld", "switchZone", "disconnect"} =>
            \A c \in Connections :
                conn[c] = "open" /\ BroadcastsFrom(c) =>
                    \A ev \in BroadcastEvents :
                        \A d \in Connections :
                            Cardinality(Delivered(emits', ev, d)) =
                                IF d \in ConnectedOthers(conn', c) /\ Calls(emits', ev) # {}
                                THEN 1 ELSE 0 ]_vars


\* C32: in the players-table server an updatePlayer overwrites only
\* position/appearance fields of the sender's own record: whatever the payload
\* carries, the record's world, userID and socketId are as before, every other
\* socket's record is unchanged, and no world's population changes.
C32_UpdateKeepsIdentity ==
    [][ op'.name = "updatePlayer" =>
            \A s \in Sockets :
                (\E data \in UpdateInputs : UpdatePlayer(s, data)) =>
                    /\ players[s] # NoRecord =>
                           /\ players'[s] # NoRecord
                           /\ players'[s].world = players[s].world
                           /\ players'[s].userID = players[s].userID
                           /\ players'[s].socketId = players[s].socketId
                    /\ \A t \in Sockets \ {s} : players'[t] = players[t]
                    /\ \A w \in WorldIds : Population(players', w) = Population(players, w) ]_vars


\* the handler that has just run left the snapshots as they must be: its last
\* worldListUpdate, if it pushed one, is the snapshot of the table pl2 it left;
\* if it pushed none, the population of every world is as in the table pl it
\* found
PushKeepsUp(es, pl, pl2) ==
    LET pushes == Calls(es, "worldListUpdate")
    IN  IF pushes # {}
        THEN \A i \in pushes :
                 (\A j \in pushes : j <= i) => SnapshotOf(es[i].payload, pl2)
        ELSE \A w \in WorldIds : Population(pl2, w) = Population(pl, w)

\* C33: in the players-table server, between handlers, the snapshot of the
\* most recent worldListUpdate equals getWorldsWithPopulation() of the current
\* players table: no joinWorld, updatePlayer or disconnect changes a world's
\* population without a push of the new snapshot.
C33_LatestPushIsCurrent == [][PushKeepsUp(emits', players, players')]_vars


\* the playerJoined events about socket a that the emissions es deliver to t
JoinedDelivered(es, a, t) ==
    {i \in Delivered(es, "playerJoined", t) : es[i].payload.socketId = a}

\* C34: in the players-table server, for sockets A and B, B is never sent two
\* playerJoined events for A without a playerLeft for A in between, for any
\* sequence of joinWorld, updatePlayer and disconnect, repeated joinWorld
\* from A included.
C34_JoinedOncePerLeave ==
    [][ op'.name = "joinWorld" =>
            \A t \in DOMAIN heard :
                \A a \in Sockets :
                    heard[t][a] = "joined" => JoinedDelivered(emits', a, t) = {} ]_vars


\* the joinWorld data that pass the userID test
JoinInputsWithUserID == {data \in JoinInputs \ {NoData} : Has(data, "userID")}

\* the population of world w changes from table pl to table pl2 by d if w is
\* the world `own`, and not at all otherwise
ChangesOwnWorldOnly(pl, pl2, own, d) ==
    \A w \in WorldIdInputs :
        Population(pl2, w) = Population(pl, w) + (IF w = own THEN d ELSE 0)

\* C35: in the players-table server a joinWorld for world w changes the
\* population of w by exactly 1 and of no other world, and a disconnect
\* changes the population of the world recorded for the disconnecting socket
\* by exactly 1 and of no other world.
C35_OwnWorldPopulationOnly ==
    [][ op'.name \in {"joinWorld", "disconnect"} =>
            \A s \in Sockets :
                /\ \A data \in JoinInputsWithUserID :
                       conn[s] = "open" /\ JoinWorld(s, data) =>
                           ChangesOwnWorldOnly(players, players', data.worldId, 1)
                /\ conn[s] = "open" /\ players[s] # NoRecord /\ Disconnect(s) =>
                       ChangesOwnWorldOnly(players, players', players[s].world, -1) ]_vars


\* the connections that were accepted and have not yet disconnected
AcceptedAndOpen == {c \in Connections : conn[c] = "open" /\ userIdOf[c] # NoUser}

\* C36: in WorldSystem and in the raw-WebSocket World the population counter
\* (playerCount / currentPlayers) equals the number of connections that were
\* accepted and have not yet disconnected; rejected connections are never
\* counted and never decrement it, so the counter is never negative and never
\* exceeds maxPlayers.
C36_CounterCountsOpenConnections ==
    draft \in {"WorldSystem", "rawWorld"} =>
        /\ Counter = Cardinality(AcceptedAndOpen)
        /\ Counter >= 0
        /\ Counter <= MaxPlayers

\* the world is at capacity, a connection was rejected and its socket has
\* closed, and an accepted connection has disconnected
C36_Witness ==
    /\ draft \in {"WorldSystem", "rawWorld"}
    /\ Counter = MaxPlayers - 1
    /\ \E c \in Connections : conn[c] = "closed" /\ userIdOf[c] = NoUser
    /\ \E c \in Connections : conn[c] = "closed" /\ userIdOf[c] # NoUser


\* C37: in the World class of src/World.js, after any sequence of connections
\* and closes, connectedSockets holds exactly one entry for each open
\* connection, so connectedSockets.size equals currentPlayers, and a close
\* removes the entry of the closing connection only.
C37_OneEntryPerOpenSocket ==
    draft = "worldJs" =>
        /\ Size(connectedSockets) = currentPlayers
        /\ \A ws \in Connections :
               conn[ws] = "open" =>
                   \E k \in DOMAIN connectedSockets :
                       /\ connectedSockets[k] # NoEntry
                       /\ connectedSockets[k].socket = ws

=============================================================================
